---------------------------- MODULE Spec2Model ----------------------------
(***************************************************************************)
(* Model of targets_minimal/new_targets_minimal.py (class TargetsMinimal): *)
(* the Redis pub/sub listener, the parsing of pointing messages, the       *)
(* bounding-box geometry, the two-stage catalogue query, the formatting of *)
(* the result and its storage and publication.                             *)
(*                                                                         *)
(* Numbers.  Python floats are held in fixed point:                        *)
(*   - a float read from a message, and a catalogue column, is an integer  *)
(*     number of thousandths (FloatScale), so 85.48 degrees is 85480;      *)
(*   - an angle in radians is an integer multiple of pi/Pi radians         *)
(*     (Pi == 18000, one unit is 0.01 degree), so that pi, pi/2 and 2*pi   *)
(*     are exact and deg2rad / rad2deg are real changes of unit;           *)
(*   - a sine or cosine is an integer number of 1/TrigScale.               *)
(***************************************************************************)
EXTENDS Integers, Sequences, FiniteSets, TLC

VARIABLES
    pc,           \* position of the listener: idle, listen, query, set, publish, crashed
    error,        \* the exception that left start(), or "none"
    pending,      \* messages published on pointing_channel, not yet delivered
    received,     \* payloads handed to parse_msg so far, in order
    log,          \* levels of the warnings written by parse_msg
    cur,          \* arguments of the calculate_targets call in progress
    bounds,       \* result of query_bounds for cur (radians)
    target_list,  \* rows returned by pd.read_sql for cur
    json_list,    \* result of format_targets for cur
    catalog,      \* rows of table target_list in the database
    store,        \* Redis key/value store: key -> value
    outbound,     \* messages published on targets_channel, in order
    calls         \* downstream calls made so far: [op, idx, key, value, cat]

vars == <<pc, error, pending, received, log, cur, bounds, target_list,
          json_list, catalog, store, outbound, calls>>

---------------------------------------------------------------------------
(* Fixed point.                                                            *)

FloatScale == 1000
Pi == 18000
TrigScale == 10000
\* pi in units of 1/TrigScale radian
PiFx == 31416

HalfPi == Pi \div 2
TwoPi == 2 * Pi

\* np.deg2rad: thousandths of a degree to units of pi/Pi radian
deg2rad(d) == (d * (Pi \div 180)) \div FloatScale

\* np.rad2deg: units of pi/Pi radian to thousandths of a degree
rad2deg(x) == (x * FloatScale) \div (Pi \div 180)

\* sine of an angle in 0 .. HalfPi, by its Taylor series to the x^9 term
SinQ(y) ==
    LET xr == (y * PiFx) \div Pi
        x2 == (xr * xr) \div TrigScale
        t3 == ((xr * x2) \div TrigScale) \div 6
        t5 == ((t3 * x2) \div TrigScale) \div 20
        t7 == ((t5 * x2) \div TrigScale) \div 42
        t9 == ((t7 * x2) \div TrigScale) \div 72
        s  == xr - t3 + t5 - t7 + t9
    IN  IF s > TrigScale THEN TrigScale ELSE s

\* np.sin / SIN()
Sin(x) ==
    LET y == x % TwoPi
    IN  IF y <= HalfPi THEN SinQ(y)
        ELSE IF y <= Pi THEN SinQ(Pi - y)
        ELSE IF y <= Pi + HalfPi THEN 0 - SinQ(y - Pi)
        ELSE 0 - SinQ(TwoPi - y)

\* np.cos / COS()
Cos(x) == Sin(x + HalfPi)

\* largest angle a in lo .. hi with SinQ(a) <= v, by bisection
RECURSIVE ArcSinBetween(_, _, _)
ArcSinBetween(v, lo, hi) ==
    IF lo >= hi THEN lo
    ELSE LET mid == (lo + hi + 1) \div 2
         IN  IF SinQ(mid) <= v THEN ArcSinBetween(v, mid, hi)
             ELSE ArcSinBetween(v, lo, mid - 1)

\* np.arcsin, for an argument in [-1, 1]
ArcSin(v) ==
    IF v >= TrigScale THEN HalfPi
    ELSE IF v >= 0 THEN ArcSinBetween(v, 0, HalfPi)
    ELSE IF v <= 0 - TrigScale THEN 0 - HalfPi
    ELSE 0 - ArcSinBetween(0 - v, 0, HalfPi)

\* ACOS()
ArcCos(v) == HalfPi - ArcSin(v)

---------------------------------------------------------------------------
(* query_bounds: the boxes [ra_min, ra_max, dec_min, dec_max], in radians. *)

\* query_bounds with the north-pole test written > instead of >=
query_bounds_strict(ra, dec, r) ==
    IF dec + r > HalfPi
    THEN << <<0, TwoPi, dec - r, HalfPi>> >>
    ELSE IF dec - r <= 0 - HalfPi
    THEN << <<0, TwoPi, HalfPi, dec + r>> >>
    ELSE LET ra_off == ArcSin((Sin(r) * TrigScale) \div Cos(dec))
         IN  << <<ra - ra_off, ra + ra_off, dec - r, dec + r>> >>

query_bounds(ra, dec, r) ==
    IF dec + r >= HalfPi
    THEN << <<0, TwoPi, dec - r, HalfPi>> >>
    ELSE IF dec - r <= 0 - HalfPi
    THEN << <<0, TwoPi, HalfPi, dec + r>> >>
    ELSE LET dec_min == dec - r
             dec_max == dec + r
             ra_off  == ArcSin((Sin(r) * TrigScale) \div Cos(dec))
             ra_min  == ra - ra_off
             ra_max  == ra + ra_off
         IN  IF ra_min < 0
             THEN << <<TwoPi - ra_min, 0, dec_min, dec_max>>,
                     <<0, ra_max, dec_min, dec_max>> >>
             ELSE IF ra_max > TwoPi
             THEN << <<ra_min, TwoPi, dec_min, dec_max>>,
                     <<0, ra_max - TwoPi, dec_min, dec_max>> >>
             ELSE << <<ra_min, ra_max, dec_min, dec_max>> >>


---------------------------------------------------------------------------
(* Strings.  A string is the sequence of its tokens; the token ":" is the  *)
(* colon, every other token is a run of characters holding no colon.       *)

\* str.split(':')
RECURSIVE split(_)
split(s) ==
    IF s = <<>> THEN << <<>> >>
    ELSE LET rest == split(Tail(s))
         IN  IF Head(s) = ":"
             THEN << <<>> >> \o rest
             ELSE << <<Head(s)>> \o Head(rest) >> \o Tail(rest)

\* the literals float() accepts, with their values in thousandths
FloatOf ==
    ("0.0" :> 0) @@ ("1.0" :> 1000) @@ ("3.0" :> 3000) @@ ("180.0" :> 180000)
    @@ ("357.0" :> 357000) @@ ("359.0" :> 359000)
    @@ ("-90.0" :> 0 - 90000) @@ ("-88.0" :> 0 - 88000)
    @@ ("-60.0" :> 0 - 60000) @@ ("60.0" :> 60000) @@ ("85.48" :> 85480)
    @@ ("88.0" :> 88000) @@ ("90.0" :> 90000)
    @@ ("76.0" :> 76000) @@ ("12.0" :> 12000)

\* float(s) raises ValueError
FloatFails(s) == ~(Len(s) = 1 /\ s[1] \in DOMAIN FloatOf)

\* float(s)
float(s) == FloatOf[s[1]]

\* '{}:{}:{}'.format(a, b, c)
format3(a, b, c) == a \o <<":">> \o b \o <<":">> \o c

\* 'targets:{}'.format(obsid)
targets_key(obsid) == <<"targets", ":">> \o obsid

NoCall ==
    [subarray |-> <<>>, target_name |-> <<>>, ra_deg |-> 0, dec_deg |-> 0,
     fecenter |-> 0, obsid |-> <<>>]

---------------------------------------------------------------------------
(* parse_msg up to its call of calculate_targets: what it does with the    *)
(* payload (kind) and the arguments of the call.                           *)

\* parse_msg with the field count tested by >= 7
parse_msg_atleast(msg_data) ==
    LET msg_components == split(msg_data)
    IN  IF Len(msg_components) >= 7
        THEN IF \/ FloatFails(msg_components[5])
                \/ FloatFails(msg_components[6])
                \/ FloatFails(msg_components[7])
             THEN [kind |-> "ValueError", args |-> NoCall]
             ELSE [kind |-> "pointing",
                   args |-> [subarray    |-> msg_components[2],
                             target_name |-> msg_components[4],
                             ra_deg      |-> float(msg_components[5]),
                             dec_deg     |-> float(msg_components[6]),
                             fecenter    |-> float(msg_components[7]),
                             obsid       |-> format3(msg_components[1],
                                                     msg_components[2],
                                                     msg_components[3])]]
        ELSE [kind |-> "unrecognised", args |-> NoCall]

parse_msg(msg_data) ==
    LET msg_components == split(msg_data)
    IN  IF Len(msg_components) = 7
        THEN IF \/ FloatFails(msg_components[5])
                \/ FloatFails(msg_components[6])
                \/ FloatFails(msg_components[7])
             THEN [kind |-> "ValueError", args |-> NoCall]
             ELSE [kind |-> "pointing",
                   args |-> [subarray    |-> msg_components[2],
                             target_name |-> msg_components[4],
                             ra_deg      |-> float(msg_components[5]),
                             dec_deg     |-> float(msg_components[6]),
                             fecenter    |-> float(msg_components[7]),
                             obsid       |-> format3(msg_components[1],
                                                     msg_components[2],
                                                     msg_components[3])]]
        ELSE [kind |-> "unrecognised", args |-> NoCall]

---------------------------------------------------------------------------
(* calculate_targets.                                                      *)

\* 0.5*(constants.c/1e6)/25.0 radians, in units of pi/Pi radian
BeamConst == 34354

\* beam_radius = 0.5*(constants.c/(fecenter*1e6))/25.0
beam_radius(fecenter) == (BeamConst * FloatScale) \div fecenter

\* the WHERE clause of box_query on a row at (ra, decl), in degrees
box_where(bnds, ra, decl) ==
    IF Len(bnds) > 1
    THEN LET box_1 == [k \in 1..4 |-> rad2deg(bnds[1][k])]
             box_2 == [k \in 1..4 |-> rad2deg(bnds[2][k])]
         IN  /\ \/ (ra > box_1[1] /\ ra < box_1[2])
                \/ (ra > box_2[1] /\ ra < box_2[2])
             /\ (decl > box_1[3] /\ decl < box_1[4])
    ELSE IF Len(bnds) = 1
    THEN LET box == [k \in 1..4 |-> rad2deg(bnds[1][k])]
         IN  /\ (ra > box[1] /\ ra < box[2])
             /\ (decl > box[3] /\ decl < box[4])
    ELSE TRUE

\* ACOS(SIN(RADIANS(decl))*SIN(dec)+COS(RADIANS(decl))*COS(dec)*COS(ra-RADIANS(ra_i)))
separation(ra_deg, dec_deg, ra_i, decl_i) ==
    LET dec == deg2rad(dec_deg)
        ra  == deg2rad(ra_deg)
        di  == deg2rad(decl_i)
        ri  == deg2rad(ra_i)
    IN  ArcCos((Sin(di) * Sin(dec)) \div TrigScale
               + (((Cos(di) * Cos(dec)) \div TrigScale) * Cos(ra - ri))
                 \div TrigScale)

\* the WHERE clause of targets_query
targets_where(args, ra, decl) ==
    separation(args.ra_deg, args.dec_deg, ra, decl) < beam_radius(args.fecenter)

\* pd.read_sql(targets_query): the rows of the table passing both filters,
\* in the table's order
read_sql(table, bnds, args) ==
    LET Keep(row) == /\ box_where(bnds, row[2], row[3])
                     /\ targets_where(args, row[2], row[3])
    IN  SelectSeq(table, Keep)

pointing_dict(args) ==
    [source_id |-> args.target_name, ra |-> args.ra_deg, dec |-> args.dec_deg]

---------------------------------------------------------------------------
(* format_targets: the JSON array, as the sequence of its objects.         *)

RECURSIVE format_rows(_, _, _)
format_rows(df, i, output_list) ==
    IF i > Len(df) THEN output_list
    ELSE format_rows(df, i + 1,
             Append(output_list,
                    [source_id |-> df[i][1], ra |-> df[i][2], dec |-> df[i][3]]))

\* format_targets with the primary pointing appended after the rows
format_targets_last(df, pdict) == Append(format_rows(df, 1, <<>>), pdict)

format_targets(df, pdict) == format_rows(df, 1, <<pdict>>)

\* an append to the value under the key (RPUSH) in place of SET
redis_append(st, key, value) ==
    IF key \in DOMAIN st THEN (key :> (st[key] \o value)) @@ st
    ELSE (key :> value) @@ st

\* redis_server.set(key, value)
redis_set(st, key, value) == (key :> value) @@ st

---------------------------------------------------------------------------
(* Inputs.                                                                 *)

\* longest sequence of messages published on pointing_channel
MaxMsgs == 3

Pointing(ts, ra, dec, f) ==
    <<"VLA", ":", "a1", ":", ts, ":", "T", ":", ra, ":", dec, ":", f>>

\* 6 fields
ShortMsg == <<"VLA", ":", "a1", ":", "t1", ":", "T", ":", "1.0", ":", "0.0">>
\* 8 fields
LongMsg ==
    <<"VLA", ":", "a1", ":", "t1", ":", "T", ":", "x", ":", "1.0", ":", "0.0",
      ":", "76.0">>
\* 7 fields, one of RA, Dec, FECENTER not a number
BadRaMsg == Pointing("t1", "abc", "0.0", "76.0")
BadDecMsg == Pointing("t1", "1.0", "abc", "76.0")
BadFreqMsg == <<"VLA", ":", "a1", ":", "t1", ":", "T", ":", "1.0", ":", "0.0", ":">>

Messages ==
    { Pointing("t1", "1.0", "0.0", "76.0"),
      Pointing("t2", "1.0", "0.0", "76.0"),
      Pointing("t1", "180.0", "60.0", "12.0"),
      ShortMsg, LongMsg, BadRaMsg, BadDecMsg, BadFreqMsg }

RaLiterals == {"0.0", "1.0", "3.0", "180.0", "357.0", "359.0"}
DecLiterals == {"-90.0", "-88.0", "-60.0", "0.0", "60.0", "85.48", "88.0", "90.0"}
FreqLiterals == {"76.0", "12.0"}

\* one pointing at each place of a grid over the sphere
GridMessages ==
    { Pointing("t1", ra, dec, f) :
        ra \in RaLiterals, dec \in DecLiterals, f \in FreqLiterals }

\* rows <<source_id, ra, decl, dist_c>> of table target_list
Row1 == << <<"s1">>, 2000, 1000, 10 >>
Row2 == << <<"s2">>, 3000, 0 - 1000, 20 >>
Row3 == << <<"s3">>, 359000, 0, 30 >>
Row4 == << <<"s4">>, 100000, 40000, 40 >>
Row5 == << <<"s5">>, 170000, 50000, 50 >>

Catalogs == { <<Row1, Row3, Row4, Row2>>, <<Row2, Row5, Row1>> }

SeqsUpTo(S, n) == UNION { [1..k -> S] : k \in 0..n }

---------------------------------------------------------------------------
(* The listener.                                                           *)

Init0 ==
    /\ pc = "idle"
    /\ error = "none"
    /\ received = <<>>
    /\ log = <<>>
    /\ cur = NoCall
    /\ bounds = <<>>
    /\ target_list = <<>>
    /\ json_list = <<>>
    /\ catalog \in Catalogs
    /\ store = <<>>
    /\ outbound = <<>>
    /\ calls = <<>>

Init == Init0 /\ pending \in SeqsUpTo(Messages, MaxMsgs)

InitGrid == Init0 /\ pending \in { <<m>> : m \in GridMessages }

Call(op, idx, key, value, cat) ==
    [op |-> op, idx |-> idx, key |-> key, value |-> value, cat |-> cat]

\* start(): ps.subscribe(pointing_channel)
Start ==
    /\ pc = "idle"
    /\ pc' = "listen"
    /\ UNCHANGED <<error, pending, received, log, cur, bounds, target_list,
                   json_list, catalog, store, outbound, calls>>

\* for msg in ps.listen(): parse_msg(msg), up to the database query of
\* calculate_targets
Receive ==
    /\ pc = "listen"
    /\ pending # <<>>
    /\ LET msg_data == Head(pending)
           p        == parse_msg(msg_data)
           idx      == Len(received) + 1
       IN  /\ pending' = Tail(pending)
           /\ received' = Append(received, msg_data)
           /\ IF p.kind = "pointing"
              THEN /\ cur' = p.args
                   /\ bounds' = query_bounds(deg2rad(p.args.ra_deg),
                                             deg2rad(p.args.dec_deg),
                                             beam_radius(p.args.fecenter))
                   /\ calls' = Append(calls,
                                 Call("query_bounds", idx, <<>>, <<>>, <<>>))
                   /\ pc' = "query"
                   /\ UNCHANGED <<error, log>>
              ELSE IF p.kind = "ValueError"
              THEN /\ pc' = "crashed"
                   /\ error' = "ValueError"
                   /\ UNCHANGED <<log, cur, bounds, calls>>
              ELSE /\ log' = Append(log, "warning")
                   /\ UNCHANGED <<pc, error, cur, bounds, calls>>
    /\ UNCHANGED <<target_list, json_list, catalog, store, outbound>>

\* pd.read_sql(targets_query) returns; format_targets
QueryOk ==
    /\ pc = "query"
    /\ target_list' = read_sql(catalog, bounds, cur)
    /\ json_list' = format_targets(target_list', pointing_dict(cur))
    /\ calls' = Append(calls, Call("read_sql", Len(received), <<>>, <<>>, catalog))
    /\ pc' = "set"
    /\ UNCHANGED <<error, pending, received, log, cur, bounds, catalog, store,
                   outbound>>

\* engine.begin() or pd.read_sql raises: nothing catches it up to start()
QueryFail ==
    /\ pc = "query"
    /\ calls' = Append(calls, Call("read_sql_failed", Len(received), <<>>, <<>>, catalog))
    /\ pc' = "crashed"
    /\ error' = "CatalogUnavailable"
    /\ UNCHANGED <<pending, received, log, cur, bounds, target_list, json_list,
                   catalog, store, outbound>>

\* calculate_targets without its redis_server.set
RedisSetSkipped ==
    /\ pc = "set"
    /\ calls' = Append(calls, Call("set", Len(received), targets_key(cur.obsid),
                                   json_list, <<>>))
    /\ pc' = "publish"
    /\ UNCHANGED <<error, pending, received, log, cur, bounds, target_list,
                   json_list, catalog, store, outbound>>

\* redis_server.set('targets:{}'.format(obsid), json_list)
RedisSet ==
    /\ pc = "set"
    /\ store' = redis_set(store, targets_key(cur.obsid), json_list)
    /\ calls' = Append(calls, Call("set", Len(received), targets_key(cur.obsid),
                                   json_list, <<>>))
    /\ pc' = "publish"
    /\ UNCHANGED <<error, pending, received, log, cur, bounds, target_list,
                   json_list, catalog, outbound>>

\* redis_server.publish(targets_channel, 'targets:{}'.format(obsid))
RedisPublish ==
    /\ pc = "publish"
    /\ outbound' = Append(outbound, targets_key(cur.obsid))
    /\ calls' = Append(calls, Call("publish", Len(received),
                                   targets_key(cur.obsid), <<>>, <<>>))
    /\ pc' = "listen"
    /\ UNCHANGED <<error, pending, received, log, cur, bounds, target_list,
                   json_list, catalog, store>>

\* the catalogue store is external: its table may change at any time
CatalogUpdate ==
    /\ catalog' \in Catalogs \ {catalog}
    /\ UNCHANGED <<pc, error, pending, received, log, cur, bounds, target_list,
                   json_list, store, outbound, calls>>

Next ==
    \/ Start
    \/ Receive
    \/ QueryOk
    \/ QueryFail
    \/ RedisSet
    \/ RedisPublish
    \/ CatalogUpdate

Spec == Init /\ [][Next]_vars

SpecGrid == InitGrid /\ [][Next]_vars

---------------------------------------------------------------------------
(* What the properties below read off a payload, without split or float.   *)

NumFields(msg) == Cardinality({k \in DOMAIN msg : msg[k] = ":"}) + 1

\* tel:sub:ts:name:ra:dec:freq, every field one token, the last three numbers
WellFormed(msg) ==
    /\ Len(msg) = 13
    /\ \A k \in 1..13 : (msg[k] = ":") <=> (k % 2 = 0)
    /\ {msg[9], msg[11], msg[13]} \subseteq DOMAIN FloatOf

\* 7 fields, and RA, Dec or FECENTER is not a number
SevenNotNumeric(msg) ==
    /\ NumFields(msg) = 7
    /\ ~WellFormed(msg)

ExpectedKey(msg) == <<"targets", ":", msg[1], ":", msg[3], ":", msg[5]>>

CallsOf(i) == {k \in DOMAIN calls : calls[k].idx = i}

\* the well-formed messages whose handling has ended
Completed ==
    LET n == IF pc = "listen" THEN Len(received) ELSE Len(received) - 1
    IN  SelectSeq(SubSeq(received, 1, n), WellFormed)

\* the pointing in progress and its radius, in radians
CurRa == deg2rad(cur.ra_deg)
CurDec == deg2rad(cur.dec_deg)
CurR == beam_radius(cur.fecenter)
BoundsDone == bounds # <<>>
NonPolar == CurDec + CurR < HalfPi /\ CurDec - CurR > 0 - HalfPi
CurRaOff == ArcSin((Sin(CurR) * TrigScale) \div Cos(CurDec))

\* sky positions (degrees, in thousandths) the coverage property is tried on
SkyRa == {0, 1000, 2000, 4000, 150000, 179000, 180000, 210000, 356000, 358000, 359000}
SkyDec == {0 - 90000, 0 - 89000, 0 - 87000, 0 - 60000, 0 - 58000, 0,
           40000, 58000, 60000, 87000, 89000, 90000}

---------------------------------------------------------------------------
(* C1: every sky position whose angular separation from the pointing is    *)
(* less than the beam radius passes the rectangular filter built from the  *)
(* boxes of query_bounds.                                                  *)
C1_BoxCoversBeam ==
    BoundsDone =>
        \A ra \in SkyRa, decl \in SkyDec :
            separation(cur.ra_deg, cur.dec_deg, ra, decl) < CurR
                => box_where(bounds, ra, decl)

(* C2: a message of 7 fields whose RA, Dec or FECENTER is not a number     *)
(* causes no downstream call and leaves the listener subscribed.           *)
C2_ParseFailureConfined ==
    \A i \in 1..Len(received) :
        SevenNotNumeric(received[i])
            => CallsOf(i) = {} /\ pc # "crashed" /\ error = "none"

(* C3: after a failed catalogue query the listener is not stopped.         *)
C3_CatalogFailureConfined ==
    \A k \in DOMAIN calls :
        calls[k].op = "read_sql_failed" => pc # "crashed" /\ error = "none"

C5_StoreThenPublish ==
    /\ \A k \in DOMAIN outbound : outbound[k] \in DOMAIN store
    /\ outbound = [k \in 1..Len(Completed) |-> ExpectedKey(Completed[k])]
    /\ pc = "publish" =>
          /\ ExpectedKey(received[Len(received)]) \in DOMAIN store
          /\ store[ExpectedKey(received[Len(received)])] = json_list
    /\ \A k \in DOMAIN calls :
          calls[k].op = "publish" =>
              /\ k > 1
              /\ calls[k - 1].op = "set"
              /\ calls[k - 1].idx = calls[k].idx
              /\ calls[k - 1].key = calls[k].key

C5_Witness ==
    /\ pc = "listen"
    /\ Len(received) = 2
    /\ Len(outbound) = 2
    /\ outbound[1] # outbound[2]
    /\ DOMAIN store = {outbound[1], outbound[2]}

C7_WrapBelowZero ==
    (BoundsDone /\ NonPolar /\ CurRa - CurRaOff < 0) =>
        bounds = << <<TwoPi + (CurRa - CurRaOff), TwoPi, CurDec - CurR, CurDec + CurR>>,
                    <<0, CurRa + CurRaOff, CurDec - CurR, CurDec + CurR>> >>

(* C8: when dec + r >= pi/2, query_bounds returns the single box           *)
(* [0, 2pi, dec - r, pi/2], whatever ra is.                                *)
C8_NorthPole ==
    (BoundsDone /\ CurDec + CurR >= HalfPi) =>
        bounds = << <<0, TwoPi, CurDec - CurR, HalfPi>> >>

C8_Witness ==
    /\ BoundsDone
    /\ CurDec + CurR = HalfPi
    /\ CurRa = Pi

\* the table the query of message i was run against
CatOf(i) ==
    LET k == CHOOSE k \in CallsOf(i) : calls[k].op = "read_sql"
    IN  calls[k].cat

Sets == {k \in DOMAIN calls : calls[k].op = "set"}

(* C9: handling the same message twice against the same catalogue stores   *)
(* twice under the same key with equal content and publishes the key       *)
(* twice; the store holds, under each key, the content last stored.        *)
C9_Idempotent ==
    /\ \A a, b \in Sets :
          (/\ a < b
           /\ received[calls[a].idx] = received[calls[b].idx]
           /\ CatOf(calls[a].idx) = CatOf(calls[b].idx))
          => /\ calls[a].key = calls[b].key
             /\ calls[a].value = calls[b].value
    /\ DOMAIN store = {calls[k].key : k \in Sets}
    /\ \A a \in Sets :
          (\A b \in Sets : calls[b].key = calls[a].key => b <= a)
              => store[calls[a].key] = calls[a].value
    /\ \A i \in 1..Len(received) :
          /\ Cardinality({k \in CallsOf(i) : calls[k].op = "set"}) <= 1
          /\ Cardinality({k \in CallsOf(i) : calls[k].op = "publish"}) <= 1
    /\ \A key \in DOMAIN store :
          Cardinality({k \in DOMAIN outbound : outbound[k] = key})
            = Cardinality({k \in DOMAIN calls :
                             calls[k].op = "publish" /\ calls[k].key = key})

C9_Witness ==
    /\ pc = "listen"
    /\ Len(received) = 2
    /\ received[1] = received[2]
    /\ Cardinality(Sets) = 2
    /\ CatOf(1) = CatOf(2)
    /\ Len(outbound) = 2
    /\ outbound[1] = outbound[2]
    /\ Cardinality(DOMAIN store) = 1
    /\ Len(store[outbound[1]]) = 3

(* C10: query_bounds returns one or two boxes, each with                   *)
(* 0 <= raMin <= raMax <= 2pi and -pi/2 <= decMin <= decMax <= pi/2.       *)
C10_BoxesWellFormed ==
    BoundsDone =>
        /\ Len(bounds) \in {1, 2}
        /\ \A k \in DOMAIN bounds :
              /\ 0 <= bounds[k][1]
              /\ bounds[k][1] <= bounds[k][2]
              /\ bounds[k][2] <= TwoPi
              /\ 0 - HalfPi <= bounds[k][3]
              /\ bounds[k][3] <= bounds[k][4]
              /\ bounds[k][4] <= HalfPi

=============================================================================
